---- MODULE Spec2Model ----
(***************************************************************************)
(* cargo-android: the bundle assembly pipeline (AabBuilder::create_from_apk)*)
(* and the signing-credential resolver (read_keystore_meta, present in both *)
(* ApkBuilder and AabBuilder).                                              *)
(*                                                                          *)
(* Paths are sequences of path components.  Option<T> is a sequence of     *)
(* length 0 (None) or 1 (Some).  Strings whose characters matter (profile   *)
(* names) are sequences of one-character strings.                           *)
(*                                                                          *)
(* std::fs::rename follows rename(2): a directory may replace an existing   *)
(* directory only when that directory is empty.                             *)
(***************************************************************************)
EXTENDS Integers, Sequences, FiniteSets, TLC

VARIABLES profile, env, manifest, fs, pc, err, invoked, key, out, sign_cmd, decoded,
          written, captured, prev, other

vars == <<profile, env, manifest, fs, pc, err, invoked, key, out, sign_cmd, decoded,
         written, captured, prev, other>>

----------------------------------------------------------------------------
(* Option<T> *)

None == <<>>
Some(v) == <<v>>
IsSome(o) == Len(o) = 1
unwrap_or_default(o) == IF IsSome(o) THEN o[1] ELSE ""

----------------------------------------------------------------------------
(* Build profiles and their names *)

CustomName == <<"q", "-", "a">>

Profiles == {"Dev", "Release", "Custom"}

profile_str(p) ==
    CASE p = "Dev" -> <<"d", "e", "v">>
      [] p = "Release" -> <<"r", "e", "l", "e", "a", "s", "e">>
      [] OTHER -> CustomName

to_uppercase_char(c) ==
    CASE c = "a" -> "A" [] c = "d" -> "D" [] c = "e" -> "E" [] c = "l" -> "L"
      [] c = "q" -> "Q" [] c = "r" -> "R" [] c = "s" -> "S" [] c = "v" -> "V"
      [] OTHER -> c

to_uppercase(s) == [i \in 1..Len(s) |-> to_uppercase_char(s[i])]

replace(s, from, to) == [i \in 1..Len(s) |-> IF s[i] = from THEN to ELSE s[i]]

normalized_upper_only(name) == to_uppercase(name)

normalized(name) == replace(to_uppercase(name), "-", "_")

env_name(pn, suffix) == <<"CARGO_ANDROID_">> \o pn \o <<suffix>>

EnvSuffixes == {"_STORE_PATH", "_STORE_PASSWORD", "_KEY_ALIAS", "_KEY_PASSWORD"}

EnvValue(suffix) ==
    CASE suffix = "_STORE_PATH" -> "env.jks"
      [] suffix = "_STORE_PASSWORD" -> "env_store_pw"
      [] suffix = "_KEY_ALIAS" -> "env_alias"
      [] OTHER -> "env_key_pw"

env_var(e, name) == IF name \in DOMAIN e THEN Some(e[name]) ELSE None

----------------------------------------------------------------------------
(* Project configuration *)

CratePath == <<"crate">>

Signing(alias, key_password) ==
    [store_path |-> "proj.jks", store_password |-> "toml_store_pw",
     key_alias |-> alias, key_password |-> key_password]

SigningEntries ==
    {Signing(a, k) : a \in {None, Some("toml_alias")}, k \in {None, Some("toml_key_pw")}}

signing_get(m, name) ==
    IF name \in DOMAIN m.signing THEN Some(m.signing[name]) ELSE None

----------------------------------------------------------------------------
(* Resolved credentials *)

DEFAULT_DEV_KEYSTORE_PASSWORD == "android"

single(path, store_pass) ==
    [path |-> path, store_pass |-> store_pass, alias |-> None, key_pass |-> None]

with_alias(k, a) == [k EXCEPT !.alias = Some(a)]

with_key_pass(k, p) == [k EXCEPT !.key_pass = Some(p)]

debug_key == single(<<"home", ".android", "debug.keystore">>, DEFAULT_DEV_KEYSTORE_PASSWORD)

NoKey == single(<<>>, "")

KeyOk(k, diag) == [error |-> "", name |-> <<>>, key |-> k, diag |-> diag]

KeyErr(e, name, diag) == [error |-> e, name |-> name, key |-> NoKey, diag |-> diag]

MissingReleaseKey(name, diag) == KeyErr("MissingReleaseKey", name, diag)


----------------------------------------------------------------------------
(* AabBuilder::read_keystore_meta.  pn is the normalized profile name, dbg *)
(* the outcome of self.ndk.debug_key().                                     *)

Aab_env_store_default(store_path, store_password, is_debug_profile, pn) ==
    IF is_debug_profile \/ IsSome(store_password)
    THEN KeyOk(single(<<store_path>>, DEFAULT_DEV_KEYSTORE_PASSWORD), <<>>)
    ELSE MissingReleaseKey(pn, <<"store_path specified but store_password not specified">>)

Aab_env_store(store_path, store_password, is_debug_profile, pn) ==
    IF IsSome(store_password)
    THEN KeyOk(single(<<store_path>>, store_password[1]), <<>>)
    ELSE IF is_debug_profile
         THEN KeyOk(single(<<store_path>>, DEFAULT_DEV_KEYSTORE_PASSWORD),
                    <<"store_password not specified, falling back to default password">>)
         ELSE MissingReleaseKey(pn, <<"store_path specified but store_password not specified">>)

Aab_env_alias_keeps_password(signing_key, key_alias, key_password, pn, diag) ==
    IF IsSome(key_alias)
    THEN IF IsSome(key_password)
         THEN KeyOk(with_key_pass(with_alias(signing_key, key_alias[1]), key_password[1]), diag)
         ELSE MissingReleaseKey(pn, Append(diag, "key_alias specified but key_password not specified"))
    ELSE IF IsSome(key_password)
         THEN KeyOk(with_key_pass(signing_key, key_password[1]), diag)
         ELSE KeyOk(signing_key, diag)

Aab_env_alias(signing_key, key_alias, key_password, pn, diag) ==
    IF IsSome(key_alias)
    THEN IF IsSome(key_password)
         THEN KeyOk(with_key_pass(with_alias(signing_key, key_alias[1]), key_password[1]), diag)
         ELSE MissingReleaseKey(pn, Append(diag, "key_alias specified but key_password not specified"))
    ELSE KeyOk(signing_key, diag)

Aab_manifest_alias_silent(signing_key, key_alias, key_password, pn) ==
    IF IsSome(key_alias)
    THEN IF IsSome(key_password)
         THEN KeyOk(with_key_pass(with_alias(signing_key, key_alias[1]), key_password[1]), <<>>)
         ELSE MissingReleaseKey(pn, <<>>)
    ELSE KeyOk(signing_key, <<>>)

Aab_manifest_alias(signing_key, key_alias, key_password, pn) ==
    IF IsSome(key_alias)
    THEN IF IsSome(key_password)
         THEN KeyOk(with_key_pass(with_alias(signing_key, key_alias[1]), key_password[1]), <<>>)
         ELSE MissingReleaseKey(pn, <<"key_alias specified but key_password not specified">>)
    ELSE KeyOk(signing_key, <<>>)

Aab_fallback(is_debug_profile, pn, dbg) ==
    IF is_debug_profile THEN dbg ELSE MissingReleaseKey(pn, <<>>)

Aab_read_keystore_meta_fallthrough(p, e, m, crate_path, is_debug_profile, dbg) ==
    LET profile_name == profile_str(p)
        signing == signing_get(m, profile_name)
        pn == normalized(profile_name)
        store_path == env_var(e, env_name(pn, "_STORE_PATH"))
        store_password == env_var(e, env_name(pn, "_STORE_PASSWORD"))
        key_alias == env_var(e, env_name(pn, "_KEY_ALIAS"))
        key_password == env_var(e, env_name(pn, "_KEY_PASSWORD"))
        sk == Aab_env_store(store_path[1], store_password, is_debug_profile, pn)
    IN  IF IsSome(store_path) /\ sk.error = ""
        THEN Aab_env_alias(sk.key, key_alias, key_password, pn, sk.diag)
        ELSE IF IsSome(signing)
        THEN Aab_manifest_alias(
                 single(Append(crate_path, signing[1].store_path), signing[1].store_password),
                 signing[1].key_alias, signing[1].key_password, pn)
        ELSE Aab_fallback(is_debug_profile, pn, dbg)

Aab_read_keystore_meta(p, e, m, crate_path, is_debug_profile, dbg) ==
    LET profile_name == profile_str(p)
        signing == signing_get(m, profile_name)
        pn == normalized(profile_name)
        store_path == env_var(e, env_name(pn, "_STORE_PATH"))
        store_password == env_var(e, env_name(pn, "_STORE_PASSWORD"))
        key_alias == env_var(e, env_name(pn, "_KEY_ALIAS"))
        key_password == env_var(e, env_name(pn, "_KEY_PASSWORD"))
    IN  IF IsSome(store_path)
        THEN LET sk == Aab_env_store(store_path[1], store_password, is_debug_profile, pn)
             IN  IF sk.error # "" THEN sk
                 ELSE Aab_env_alias(sk.key, key_alias, key_password, pn, sk.diag)
        ELSE IF IsSome(signing)
        THEN Aab_manifest_alias(
                 single(Append(crate_path, signing[1].store_path), signing[1].store_password),
                 signing[1].key_alias, signing[1].key_password, pn)
        ELSE Aab_fallback(is_debug_profile, pn, dbg)

----------------------------------------------------------------------------
(* ApkBuilder::read_keystore_meta.  pn is the normalized profile name, dbg *)
(* the outcome of self.ndk.debug_key().                                     *)

Apk_env_store_strict(store_path, store_password, is_debug_profile, pn) ==
    IF IsSome(store_password)
    THEN KeyOk(single(<<store_path>>, store_password[1]), <<>>)
    ELSE MissingReleaseKey(pn, <<"store_path specified but store_password not specified">>)

Apk_env_store(store_path, store_password, is_debug_profile, pn) ==
    IF IsSome(store_password)
    THEN KeyOk(single(<<store_path>>, store_password[1]), <<>>)
    ELSE IF is_debug_profile
         THEN KeyOk(single(<<store_path>>, DEFAULT_DEV_KEYSTORE_PASSWORD),
                    <<"store_password not specified, falling back to default password">>)
         ELSE MissingReleaseKey(pn, <<"store_path specified but store_password not specified">>)

Apk_env_alias(signing_key, key_alias, key_password, pn, diag) ==
    IF IsSome(key_alias)
    THEN IF IsSome(key_password)
         THEN KeyOk(with_key_pass(with_alias(signing_key, key_alias[1]), key_password[1]), diag)
         ELSE MissingReleaseKey(pn, Append(diag, "key_alias specified but key_password not specified"))
    ELSE KeyOk(signing_key, diag)

Apk_manifest_alias_lenient(signing_key, key_alias, key_password, pn) ==
    IF IsSome(key_alias)
    THEN IF IsSome(key_password)
         THEN KeyOk(with_key_pass(with_alias(signing_key, key_alias[1]), key_password[1]), <<>>)
         ELSE KeyOk(with_alias(signing_key, key_alias[1]), <<>>)
    ELSE KeyOk(signing_key, <<>>)

Apk_manifest_alias(signing_key, key_alias, key_password, pn) ==
    IF IsSome(key_alias)
    THEN IF IsSome(key_password)
         THEN KeyOk(with_key_pass(with_alias(signing_key, key_alias[1]), key_password[1]), <<>>)
         ELSE MissingReleaseKey(pn, <<"key_alias specified but key_password not specified">>)
    ELSE KeyOk(signing_key, <<>>)

Apk_fallback_never(is_debug_profile, pn, dbg) ==
    IF ~is_debug_profile THEN dbg ELSE MissingReleaseKey(pn, <<>>)

Apk_fallback(is_debug_profile, pn, dbg) ==
    IF is_debug_profile THEN dbg ELSE MissingReleaseKey(pn, <<>>)

Apk_read_keystore_meta_env_key_password(p, e, m, crate_path, is_debug_profile, dbg) ==
    LET profile_name == profile_str(p)
        signing == signing_get(m, profile_name)
        pn == normalized(profile_name)
        store_path == env_var(e, env_name(pn, "_STORE_PATH"))
        store_password == env_var(e, env_name(pn, "_STORE_PASSWORD"))
        key_alias == env_var(e, env_name(pn, "_KEY_ALIAS"))
        key_password == env_var(e, env_name(pn, "_KEY_PASSWORD"))
    IN  IF IsSome(store_path)
        THEN LET sk == Apk_env_store(store_path[1], store_password, is_debug_profile, pn)
             IN  IF sk.error # "" THEN sk
                 ELSE Apk_env_alias(sk.key, key_alias, key_password, pn, sk.diag)
        ELSE IF IsSome(signing)
        THEN Apk_manifest_alias(
                 single(Append(crate_path, signing[1].store_path), signing[1].store_password),
                 signing[1].key_alias,
                 IF IsSome(signing[1].key_password) THEN signing[1].key_password ELSE key_password,
                 pn)
        ELSE Apk_fallback(is_debug_profile, pn, dbg)

Apk_read_keystore_meta(p, e, m, crate_path, is_debug_profile, dbg) ==
    LET profile_name == profile_str(p)
        signing == signing_get(m, profile_name)
        pn == normalized(profile_name)
        store_path == env_var(e, env_name(pn, "_STORE_PATH"))
        store_password == env_var(e, env_name(pn, "_STORE_PASSWORD"))
        key_alias == env_var(e, env_name(pn, "_KEY_ALIAS"))
        key_password == env_var(e, env_name(pn, "_KEY_PASSWORD"))
    IN  IF IsSome(store_path)
        THEN LET sk == Apk_env_store(store_path[1], store_password, is_debug_profile, pn)
             IN  IF sk.error # "" THEN sk
                 ELSE Apk_env_alias(sk.key, key_alias, key_password, pn, sk.diag)
        ELSE IF IsSome(signing)
        THEN Apk_manifest_alias(
                 single(Append(crate_path, signing[1].store_path), signing[1].store_password),
                 signing[1].key_alias, signing[1].key_password, pn)
        ELSE Apk_fallback(is_debug_profile, pn, dbg)

----------------------------------------------------------------------------
(* The filesystem: a function from the paths that exist to their nodes.    *)

Dir == [kind |-> "dir", data |-> {}]
File(d) == [kind |-> "file", data |-> d]

Parent(p) == SubSeq(p, 1, Len(p) - 1)
IsPrefix(p, q) == Len(p) <= Len(q) /\ SubSeq(q, 1, Len(p)) = p
Exists(f, p) == p \in DOMAIN f
IsDirAt(f, p) == Exists(f, p) /\ f[p].kind = "dir"
ParentOk(f, p) == Len(p) <= 1 \/ IsDirAt(f, Parent(p))
Under(f, p) == {q \in DOMAIN f : IsPrefix(p, q)}
Below(f, p) == Under(f, p) \ {p}
Entries(f, p) == {q \in DOMAIN f : Len(q) = Len(p) + 1 /\ IsPrefix(p, q)}
Put(f, p, node) == [q \in DOMAIN f \cup {p} |-> IF q = p THEN node ELSE f[q]]
Drop(f, S) == [q \in DOMAIN f \ S |-> f[q]]

IoOk(f) == [err |-> "Ok", fs |-> f]
IoErr(k, f) == [err |-> k, fs |-> f]

RECURSIVE create_dir_all(_, _)
create_dir_all(f, p) ==
    IF p = <<>> THEN IoOk(f)
    ELSE IF Exists(f, p)
         THEN IF f[p].kind = "dir" THEN IoOk(f) ELSE IoErr("AlreadyExists", f)
         ELSE LET r == create_dir_all(f, Parent(p))
              IN  IF r.err # "Ok" THEN r ELSE IoOk(Put(r.fs, p, Dir))

create_dir(f, p) ==
    IF Exists(f, p) THEN IoErr("AlreadyExists", f)
    ELSE IF ~ParentOk(f, p) THEN IoErr("NotFound", f)
    ELSE IoOk(Put(f, p, Dir))

remove_dir_all(f, p) == Drop(f, Under(f, p))

remove_file(f, p) == Drop(f, {p})

write(f, p, data) ==
    IF ~ParentOk(f, p) THEN IoErr("NotFound", f)
    ELSE IF IsDirAt(f, p) THEN IoErr("IsADirectory", f)
    ELSE IoOk(Put(f, p, File(data)))

Moved(f, from, to) ==
    LET kept == DOMAIN f \ (Under(f, from) \cup Under(f, to))
        Target(q) == to \o SubSeq(q, Len(from) + 1, Len(q))
        Source(t) == from \o SubSeq(t, Len(to) + 1, Len(t))
        moved == {Target(q) : q \in Under(f, from)}
    IN  [t \in kept \cup moved |-> IF t \in moved THEN f[Source(t)] ELSE f[t]]

rename(f, from, to) ==
    IF ~Exists(f, from) \/ ~ParentOk(f, to) THEN IoErr("NotFound", f)
    ELSE IF ~Exists(f, to) THEN IoOk(Moved(f, from, to))
    ELSE IF f[from].kind = "dir" /\ f[to].kind # "dir" THEN IoErr("NotADirectory", f)
    ELSE IF f[from].kind # "dir" /\ f[to].kind = "dir" THEN IoErr("IsADirectory", f)
    ELSE IF f[to].kind = "dir" /\ Below(f, to) # {} THEN IoErr("DirectoryNotEmpty", f)
    ELSE IoOk(Moved(f, from, to))

----------------------------------------------------------------------------
(* Layout of the staging area *)

base_dir == <<"target-profile">>
aab_dir == base_dir \o <<"aab">>
apk_dir == base_dir \o <<"apk">>
tools_dir == aab_dir \o <<"tools">>
apk_tool == tools_dir \o <<"apktool-2.8.1.jar">>
bundle_tool == tools_dir \o <<"bundletool-1.15.4.jar">>
unpacked_apk_beside_input == apk_dir \o <<"unpacked-apk">>

unpacked_apk == aab_dir \o <<"unpacked-apk">>
res_zip == aab_dir \o <<"res.zip">>
base_zip == aab_dir \o <<"base.zip">>
bundle_dir == aab_dir \o <<"bundle">>
dex_dir == bundle_dir \o <<"dex">>
manifest_dir == bundle_dir \o <<"manifest">>
root_dir == bundle_dir \o <<"root">>
bundle_zip == bundle_dir \o <<"bundle.zip">>

APK_TOOL == {"apktool-2.8.1 embedded bytes"}
BUNDLE_TOOL == {"bundletool-1.15.4 embedded bytes"}

input_apk(m) ==
    apk_dir \o <<IF IsSome(m.apk_name) THEN m.apk_name[1] \o ".apk" ELSE "app.apk">>

unsigned_name(m) ==
    IF IsSome(m.apk_name) THEN m.apk_name[1] \o "-unsigned.aab" ELSE "bundle-unsigned.aab"

signed_name(m) ==
    IF IsSome(m.apk_name) THEN m.apk_name[1] \o ".aab" ELSE "bundle.aab"

JarEntries == <<"assets", "dex", "lib", "manifest", "res", "root", "resources.pb">>

----------------------------------------------------------------------------
(* External tools: what a successful (exit status zero) invocation leaves  *)
(* on disk.  A file's data is a set of tags; an archive's data is the set   *)
(* of its top-level entries.                                                *)

ToolOutcomes == {"zero", "nonzero", "spawn_error"}

Ran(tool, zero) == [tool |-> tool, exit |-> IF zero THEN "zero" ELSE "nonzero"]

OptionalTrees == {"lib", "assets", "unknown", "kotlin"}

ApkContents ==
    {c \in [OptionalTrees -> {"absent", "empty", "full"}] :
        c["lib"] # "empty" /\ c["assets"] # "empty" /\ c["kotlin"] # "empty"}

LinkExtras == SUBSET {"AndroidManifest.xml", "assets"}

AddNodes(f, dirs, files) ==
    [q \in DOMAIN f \cup dirs \cup files |->
        IF q \in dirs THEN Dir
        ELSE IF q \in files THEN File({q[Len(q)]})
        ELSE f[q]]

apktool_decode(f, c) ==
    LET trees == {t \in OptionalTrees : c[t] # "absent"}
        full == {t \in OptionalTrees : c[t] = "full"}
    IN  AddNodes(remove_dir_all(f, unpacked_apk),
                 {unpacked_apk, unpacked_apk \o <<"res">>}
                     \cup {unpacked_apk \o <<t>> : t \in trees},
                 {unpacked_apk \o <<"AndroidManifest.xml">>,
                  unpacked_apk \o <<"res", "values.xml">>}
                     \cup {unpacked_apk \o <<t, t \o ".bin">> : t \in full})

aapt2_compile(f) == Put(f, res_zip, File({"compiled resources"}))

aapt2_link(f, extra) == Put(f, base_zip, File({"res", "resources.pb"} \cup extra))

unzip(f, into, archive) ==
    LET entries == f[archive].data
        dirs == {e \in entries : e \in {"res", "assets"}}
    IN  AddNodes(f, {into \o <<e>> : e \in dirs},
                 {into \o <<e>> : e \in entries \ dirs}
                     \cup {into \o <<e, e \o ".bin">> : e \in dirs})

jar_create(f) ==
    Put(f, bundle_zip,
        File({JarEntries[i] : i \in {j \in 1..Len(JarEntries) :
                                        Exists(f, bundle_dir \o <<JarEntries[j]>>)}}))

bundletool_build_as_signed(f, m) ==
    Put(f, aab_dir \o <<signed_name(m)>>, File(f[bundle_zip].data))

bundletool_build(f, m) ==
    Put(f, aab_dir \o <<unsigned_name(m)>>, File(f[bundle_zip].data))

jarsigner_sign(f, m) ==
    Put(f, aab_dir \o <<signed_name(m)>>,
        File(f[aab_dir \o <<unsigned_name(m)>>].data \cup {"signature"}))

----------------------------------------------------------------------------
(* Errors returned by create_from_apk *)

NoErr == [kind |-> "none", stage |-> "", detail |-> "", at |-> ""]
ToolFailed(msg) == [kind |-> "tool", stage |-> msg, detail |-> "", at |-> ""]
IoError(stage, detail, at) == [kind |-> "io", stage |-> stage, detail |-> detail, at |-> at]
KeyError(e) == [kind |-> "key", stage |-> "sign", detail |-> e, at |-> ""]

----------------------------------------------------------------------------
(* Stage 1: reset the staging area (aab.rs 49-59) *)

reset_keeps_bundle(f) ==
    LET r == create_dir_all(f, aab_dir)
        entries == Entries(r.fs, aab_dir)
        removed == UNION {IF r.fs[q].kind = "dir" THEN Under(r.fs, q) ELSE {q} :
                            q \in {x \in entries : x[Len(x)] \notin {"tools", "bundle"}}}
    IN  IF r.err # "Ok" THEN r ELSE IoOk(Drop(r.fs, removed))

reset_dirs_only(f) ==
    LET r == create_dir_all(f, aab_dir)
        entries == Entries(r.fs, aab_dir)
        removed == UNION {Under(r.fs, q) :
                            q \in {x \in entries : x[Len(x)] # "tools" /\ r.fs[x].kind = "dir"}}
    IN  IF r.err # "Ok" THEN r ELSE IoOk(Drop(r.fs, removed))

reset(f) ==
    LET r == create_dir_all(f, aab_dir)
        entries == Entries(r.fs, aab_dir)
        removed == UNION {IF r.fs[q].kind = "dir" THEN Under(r.fs, q) ELSE {q} :
                            q \in {x \in entries : x[Len(x)] # "tools"}}
    IN  IF r.err # "Ok" THEN r ELSE IoOk(Drop(r.fs, removed))

(* Stage 2: materialize the helper tools (aab.rs 61-68) *)

materialize_if_missing(f) ==
    LET r1 == create_dir_all(f, tools_dir)
        r2 == IF Exists(r1.fs, apk_tool) THEN r1 ELSE write(r1.fs, apk_tool, APK_TOOL)
        r3 == IF Exists(r2.fs, bundle_tool) THEN r2 ELSE write(r2.fs, bundle_tool, BUNDLE_TOOL)
    IN  IF r1.err # "Ok" THEN r1
        ELSE IF r2.err # "Ok" THEN r2
        ELSE r3

materialize(f) ==
    LET r1 == create_dir_all(f, tools_dir)
        r2 == write(r1.fs, apk_tool, APK_TOOL)
        r3 == write(r2.fs, bundle_tool, BUNDLE_TOOL)
    IN  IF r1.err # "Ok" THEN r1
        ELSE IF r2.err # "Ok" THEN r2
        ELSE r3

(* Stage 6, first half: create the bundle layout (aab.rs 123-130) *)

make_layout(f) ==
    LET r1 == create_dir_all(f, dex_dir)
        r2 == create_dir(r1.fs, manifest_dir)
        r3 == create_dir(r2.fs, root_dir)
    IN  IF r1.err # "Ok" THEN r1
        ELSE IF r2.err # "Ok" THEN r2
        ELSE r3

(* Stage 7: restage into the bundle layout (aab.rs 143-160) *)

MoveOk(f) == [err |-> "Ok", at |-> "", fs |-> f]
MoveErr(r, at) == [err |-> r.err, at |-> at, fs |-> r.fs]

move_manifest(f) ==
    LET r == rename(f, bundle_dir \o <<"AndroidManifest.xml">>,
                       manifest_dir \o <<"AndroidManifest.xml">>)
    IN  IF r.err # "Ok" THEN MoveErr(r, "AndroidManifest.xml") ELSE MoveOk(r.fs)

move_lib_tolerant(f) ==
    LET r == rename(f, unpacked_apk \o <<"lib">>, bundle_dir \o <<"lib">>)
    IN  IF r.err # "Ok" /\ r.err # "NotFound" THEN MoveErr(r, "lib") ELSE MoveOk(r.fs)

move_lib(f) ==
    LET r == rename(f, unpacked_apk \o <<"lib">>, bundle_dir \o <<"lib">>)
    IN  IF r.err # "Ok" THEN MoveErr(r, "lib") ELSE MoveOk(r.fs)

move_assets_strict(f) ==
    LET r == rename(f, unpacked_apk \o <<"assets">>, bundle_dir \o <<"assets">>)
    IN  IF r.err # "Ok" THEN MoveErr(r, "assets") ELSE MoveOk(r.fs)

move_assets(f) ==
    LET r == rename(f, unpacked_apk \o <<"assets">>, bundle_dir \o <<"assets">>)
    IN  IF r.err # "Ok" /\ r.err # "NotFound" THEN MoveErr(r, "assets") ELSE MoveOk(r.fs)

move_unknown(f) ==
    LET r == rename(f, unpacked_apk \o <<"unknown">>, root_dir)
    IN  IF r.err # "Ok" /\ r.err # "NotFound" THEN MoveErr(r, "unknown") ELSE MoveOk(r.fs)

move_kotlin_strict(f) ==
    LET r == rename(f, unpacked_apk \o <<"kotlin">>, root_dir)
    IN  IF r.err # "Ok" THEN MoveErr(r, "kotlin") ELSE MoveOk(r.fs)

move_kotlin(f) ==
    LET r == rename(f, unpacked_apk \o <<"kotlin">>, root_dir)
    IN  IF r.err # "Ok" /\ r.err # "NotFound" THEN MoveErr(r, "kotlin") ELSE MoveOk(r.fs)

restage(f) ==
    LET r1 == move_manifest(f)
        r2 == move_lib(r1.fs)
        r3 == move_assets(r2.fs)
        r4 == move_unknown(r3.fs)
        r5 == move_kotlin(r4.fs)
    IN  IF r1.err # "Ok" THEN r1
        ELSE IF r2.err # "Ok" THEN r2
        ELSE IF r3.err # "Ok" THEN r3
        ELSE IF r4.err # "Ok" THEN r4
        ELSE r5

----------------------------------------------------------------------------
(* Initial states: one command invocation with any profile, environment,   *)
(* project configuration and prior content of the staging root.            *)

EmptyFs == [q \in {} |-> Dir]

LeftoverFs ==
    LET a == AddNodes(EmptyFs,
                 {base_dir, aab_dir, tools_dir, unpacked_apk, unpacked_apk \o <<"assets">>,
                  bundle_dir, manifest_dir, root_dir},
                 {tools_dir \o <<"cache.txt">>,
                  unpacked_apk \o <<"assets", "old.bin">>,
                  root_dir \o <<"old.bin">>,
                  bundle_zip, base_zip, aab_dir \o <<"bundle.aab">>})
    IN  Put(a, apk_tool, File({"stale bytes"}))

(* A staging root in which the name `tools` is taken by a regular file *)
ToolsFileFs ==
    AddNodes(EmptyFs, {base_dir, aab_dir}, {tools_dir, aab_dir \o <<"notes.txt">>})

PriorStaging == {EmptyFs, LeftoverFs, ToolsFileFs}

EnvFor(p) ==
    LET pn == normalized(profile_str(p))
    IN  {[n \in {env_name(pn, x) : x \in S} |-> EnvValue(n[Len(n)])] : S \in SUBSET EnvSuffixes}

OtherProfile(p) == IF p = "Release" THEN "Dev" ELSE "Release"

SigningMaps(p) ==
    {[n \in {} |-> Signing(None, None)]}
        \cup {[n \in {profile_str(p)} |-> x] : x \in SigningEntries}
        \cup {[n \in {profile_str(OtherProfile(p))} |-> Signing(None, None)]}

Manifests(p) == [apk_name : {None, Some("game")}, signing : SigningMaps(p)]

(* The packages an earlier `build` left under apk_dir (apk.rs 200-208) *)
Artifacts ==
    {[name |-> "app", type |-> "Bin"], [name |-> "mygame", type |-> "Lib"],
     [name |-> "demo", type |-> "Example"]}

artifact_build_dir(a) == IF a.type = "Example" THEN <<"examples">> ELSE <<>>

apk_path(m, a) ==
    apk_dir \o artifact_build_dir(a)
        \o <<(IF IsSome(m.apk_name) THEN m.apk_name[1] ELSE a.name) \o ".apk">>

PriorPackages == {{}, Artifacts}

WithPackages(f, m, built) ==
    IF built = {} THEN f
    ELSE AddNodes(f, {base_dir, apk_dir} \cup {apk_dir \o artifact_build_dir(a) : a \in built},
                  {apk_path(m, a) : a \in built})

(* A second create_from_apk on the same staging root: the stage it has     *)
(* reached (1 is its start), whether it has failed, and the stage this run *)
(* had reached when the second one reset the staging root (0: not yet).    *)
NoOther == [stage |-> 1, failed |-> FALSE, reset_at |-> 0]

NotResolved == KeyErr("NotCalled", <<>>, <<>>)

Init ==
    /\ profile \in Profiles
    /\ env \in EnvFor(profile)
    /\ manifest \in Manifests(profile)
    /\ \E f \in PriorStaging, built \in PriorPackages : fs = WithPackages(f, manifest, built)
    /\ pc = "Start"
    /\ err = NoErr
    /\ invoked = <<>>
    /\ key = NotResolved
    /\ out = <<>>
    /\ sign_cmd = <<>>
    /\ decoded = None
    /\ written = ""
    /\ captured = ""
    /\ prev = <<>>
    /\ other = NoOther

DebugKeyOutcome(ok) == IF ok THEN KeyOk(debug_key, <<>>) ELSE KeyErr("Ndk", <<>>, <<>>)

----------------------------------------------------------------------------
(* ApkBuilder::build (apk.rs 160-266) *)

Apk_is_debug_profile_nonrelease(p) == p # "Release"

Apk_is_debug_profile(p) == p = "Dev"

ApkBuild ==
    /\ pc = "Start"
    /\ \E a \in Artifacts, compiled \in BOOLEAN, dbg \in BOOLEAN, signed \in BOOLEAN :
         LET r == Apk_read_keystore_meta(profile, env, manifest, CratePath,
                                         Apk_is_debug_profile(profile), DebugKeyOutcome(dbg))
         IN  IF ~compiled
             THEN /\ pc' = "ApkFailed"
                  /\ err' = [kind |-> "ndk", stage |-> "build", detail |-> "CmdFailed", at |-> ""]
                  /\ UNCHANGED <<key, out, fs>>
             ELSE /\ key' = r
                  /\ out' = out \o r.diag
                  /\ IF r.error # ""
                     THEN /\ pc' = "ApkFailed"
                          /\ err' = [kind |-> "key", stage |-> "build", detail |-> r.error, at |-> ""]
                          /\ fs' = fs
                     ELSE IF ~signed
                     THEN /\ pc' = "ApkFailed"
                          /\ err' = [kind |-> "ndk", stage |-> "build", detail |-> "CmdFailed", at |-> ""]
                          /\ fs' = fs
                     ELSE /\ pc' = "ApkSigned"
                          /\ err' = err
                          /\ fs' = AddNodes(fs, {base_dir, apk_dir, apk_dir \o artifact_build_dir(a)},
                                            {apk_path(manifest, a)})
    /\ UNCHANGED <<profile, env, manifest, invoked, sign_cmd, decoded, written, captured, prev, other>>

----------------------------------------------------------------------------
(* AabBuilder::create_from_apk (aab.rs 46-227), one action per stage *)

(* What a tool writes to its standard error, and what Command::output()   *)
(* hands back in output.stderr: the text itself when the stream is piped  *)
(* (the default), nothing when the command was built with                 *)
(* stderr(Stdio::inherit()), where the text goes to the terminal instead. *)
StderrTexts == {"", "diagnostics"}

stderr_piped(w) == w

stderr_inherited(w) == ""

Stderr(stdio) ==
    \E w \in StderrTexts :
        /\ written' = w
        /\ captured' = IF stdio = "inherit" THEN stderr_inherited(w) ELSE stderr_piped(w)

Quiet == UNCHANGED <<written, captured>>

Reset ==
    /\ pc = "Start"
    /\ LET r == reset(fs)
       IN  IF r.err # "Ok"
           THEN pc' = "Failed" /\ err' = IoError("reset", r.err, "") /\ fs' = fs
           ELSE pc' = "Reset" /\ err' = err /\ fs' = r.fs
    /\ UNCHANGED <<profile, env, manifest, invoked, key, out, sign_cmd, decoded, written, captured, prev, other>>

Materialize ==
    /\ pc = "Reset"
    /\ LET r == materialize(fs)
       IN  IF r.err # "Ok"
           THEN pc' = "Failed" /\ err' = IoError("materialize", r.err, "") /\ fs' = r.fs
           ELSE pc' = "ToolsReady" /\ err' = err /\ fs' = r.fs
    /\ UNCHANGED <<profile, env, manifest, invoked, key, out, sign_cmd, decoded, written, captured, prev, other>>

Decompile ==
    /\ pc = "ToolsReady"
    /\ \E o \in ToolOutcomes, c \in ApkContents :
         LET zero == o = "zero" /\ Exists(fs, input_apk(manifest))
         IN  IF o = "spawn_error"
             THEN /\ pc' = "Failed" /\ err' = IoError("decompile", "spawn", "java") /\ Quiet
                  /\ UNCHANGED <<fs, invoked, out, decoded>>
             ELSE /\ invoked' = Append(invoked, Ran("apktool", zero))
                  /\ IF zero
                     THEN /\ pc' = "Decompiled" /\ err' = err /\ Quiet
                          /\ fs' = apktool_decode(fs, c)
                          /\ decoded' = Some(c)
                          /\ out' = Append(out, "Unpacked apk")
                     ELSE /\ pc' = "Failed" /\ err' = ToolFailed("Failed to unpack apk") /\ Stderr("piped")
                          /\ UNCHANGED <<fs, out, decoded>>
    /\ UNCHANGED <<profile, env, manifest, key, sign_cmd, prev, other>>

CompileResources ==
    /\ pc = "Decompiled"
    /\ \E o \in ToolOutcomes :
         LET zero == o = "zero" /\ IsDirAt(fs, unpacked_apk \o <<"res">>)
         IN  IF o = "spawn_error"
             THEN /\ pc' = "Failed" /\ err' = IoError("compile", "spawn", "aapt2") /\ Quiet
                  /\ UNCHANGED <<fs, invoked, out>>
             ELSE /\ invoked' = Append(invoked, Ran("aapt2 compile", zero))
                  /\ IF zero
                     THEN /\ pc' = "ResCompiled" /\ err' = err /\ Quiet
                          /\ fs' = aapt2_compile(fs)
                          /\ out' = Append(out, "Compiled resources")
                     ELSE /\ pc' = "Failed" /\ err' = ToolFailed("Failed to compile resources") /\ Stderr("piped")
                          /\ UNCHANGED <<fs, out>>
    /\ UNCHANGED <<profile, env, manifest, key, sign_cmd, decoded, prev, other>>

LinkResources ==
    /\ pc = "ResCompiled"
    /\ \E o \in ToolOutcomes, x \in LinkExtras :
         LET zero == o = "zero" /\ Exists(fs, res_zip)
                              /\ Exists(fs, unpacked_apk \o <<"AndroidManifest.xml">>)
         IN  IF o = "spawn_error"
             THEN /\ pc' = "Failed" /\ err' = IoError("link", "spawn", "aapt2") /\ Quiet
                  /\ UNCHANGED <<fs, invoked, out>>
             ELSE /\ invoked' = Append(invoked, Ran("aapt2 link", zero))
                  /\ IF zero
                     THEN /\ pc' = "Linked" /\ err' = err /\ Quiet
                          /\ fs' = aapt2_link(fs, x)
                          /\ out' = Append(out, "Linked resources")
                     ELSE /\ pc' = "Failed" /\ err' = ToolFailed("Failed to link resources") /\ Stderr("piped")
                          /\ UNCHANGED <<fs, out>>
    /\ UNCHANGED <<profile, env, manifest, key, sign_cmd, decoded, prev, other>>

Expand ==
    /\ pc = "Linked"
    /\ LET r == make_layout(fs)
       IN  IF r.err # "Ok"
           THEN /\ pc' = "Failed" /\ err' = IoError("expand", r.err, "") /\ fs' = r.fs /\ Quiet
                /\ UNCHANGED <<invoked, out>>
           ELSE \E o \in ToolOutcomes :
                  LET zero == o = "zero" /\ Exists(r.fs, base_zip)
                  IN  IF o = "spawn_error"
                      THEN /\ pc' = "Failed" /\ err' = IoError("expand", "spawn", "unzip") /\ Quiet
                           /\ fs' = r.fs
                           /\ UNCHANGED <<invoked, out>>
                      ELSE /\ invoked' = Append(invoked, Ran("unzip", zero))
                           /\ IF zero
                              THEN /\ pc' = "Expanded" /\ err' = err /\ Quiet
                                   /\ fs' = unzip(r.fs, bundle_dir, base_zip)
                                   /\ out' = Append(out, "Unzipped base.zip")
                              ELSE /\ pc' = "Failed" /\ err' = ToolFailed("Failed to unzip base.zip") /\ Stderr("piped")
                                   /\ fs' = r.fs
                                   /\ out' = out
    /\ UNCHANGED <<profile, env, manifest, key, sign_cmd, decoded, prev, other>>

Restage ==
    /\ pc = "Expanded"
    /\ LET r == restage(fs)
       IN  IF r.err # "Ok"
           THEN pc' = "Failed" /\ err' = IoError("restage", r.err, r.at) /\ fs' = r.fs
           ELSE pc' = "Restaged" /\ err' = err /\ fs' = r.fs
    /\ UNCHANGED <<profile, env, manifest, invoked, key, out, sign_cmd, decoded, written, captured, prev, other>>

Repackage_retry ==
    /\ pc = "Restaged"
    /\ \E o \in ToolOutcomes :
         LET zero == o = "zero" /\ IsDirAt(fs, bundle_dir)
         IN  IF o = "spawn_error"
             THEN /\ pc' = "Failed" /\ err' = IoError("repackage", "spawn", "jar") /\ Quiet
                  /\ UNCHANGED <<fs, invoked, out>>
             ELSE /\ invoked' = Append(invoked, Ran("jar", zero))
                  /\ IF zero
                     THEN /\ pc' = "Repackaged" /\ err' = err /\ Quiet
                          /\ fs' = jar_create(fs)
                          /\ out' = Append(out, "Created bundle.zip")
                     ELSE /\ pc' = "Restaged" /\ err' = err /\ Stderr("piped")
                          /\ UNCHANGED <<fs, out>>
    /\ UNCHANGED <<profile, env, manifest, key, sign_cmd, decoded, prev, other>>

Repackage_unchecked ==
    /\ pc = "Restaged"
    /\ \E o \in ToolOutcomes :
         LET zero == o = "zero"
         IN  IF o = "spawn_error"
             THEN /\ pc' = "Failed" /\ err' = IoError("repackage", "spawn", "jar") /\ Quiet
                  /\ UNCHANGED <<fs, invoked, out>>
             ELSE /\ invoked' = Append(invoked, Ran("jar", zero))
                  /\ pc' = "Repackaged" /\ err' = err /\ Quiet
                  /\ fs' = jar_create(fs)
                  /\ out' = Append(out, "Created bundle.zip")
    /\ UNCHANGED <<profile, env, manifest, key, sign_cmd, decoded, prev, other>>

Repackage ==
    /\ pc = "Restaged"
    /\ \E o \in ToolOutcomes :
         LET zero == o = "zero" /\ IsDirAt(fs, bundle_dir)
         IN  IF o = "spawn_error"
             THEN /\ pc' = "Failed" /\ err' = IoError("repackage", "spawn", "jar") /\ Quiet
                  /\ UNCHANGED <<fs, invoked, out>>
             ELSE /\ invoked' = Append(invoked, Ran("jar", zero))
                  /\ IF zero
                     THEN /\ pc' = "Repackaged" /\ err' = err /\ Quiet
                          /\ fs' = jar_create(fs)
                          /\ out' = Append(out, "Created bundle.zip")
                     ELSE /\ pc' = "Failed" /\ err' = ToolFailed("Failed to create bundle.zip") /\ Stderr("piped")
                          /\ UNCHANGED <<fs, out>>
    /\ UNCHANGED <<profile, env, manifest, key, sign_cmd, decoded, prev, other>>

BuildBundle_again ==
    /\ pc \in {"Repackaged", "BundleBuilt"}
    /\ \E o \in ToolOutcomes :
         LET zero == o = "zero" /\ Exists(fs, bundle_zip)
         IN  IF o = "spawn_error"
             THEN /\ pc' = "Failed" /\ err' = IoError("build-bundle", "spawn", "java") /\ Quiet
                  /\ UNCHANGED <<fs, invoked, out>>
             ELSE /\ invoked' = Append(invoked, Ran("bundletool", zero))
                  /\ IF zero
                     THEN /\ pc' = "BundleBuilt" /\ err' = err /\ Quiet
                          /\ fs' = bundletool_build(fs, manifest)
                          /\ out' = Append(out, "Built bundle")
                     ELSE /\ pc' = "Failed" /\ err' = ToolFailed("Failed to build bundle") /\ Stderr("piped")
                          /\ UNCHANGED <<fs, out>>
    /\ UNCHANGED <<profile, env, manifest, key, sign_cmd, decoded, prev, other>>

BuildBundle ==
    /\ pc = "Repackaged"
    /\ \E o \in ToolOutcomes :
         LET zero == o = "zero" /\ Exists(fs, bundle_zip)
         IN  IF o = "spawn_error"
             THEN /\ pc' = "Failed" /\ err' = IoError("build-bundle", "spawn", "java") /\ Quiet
                  /\ UNCHANGED <<fs, invoked, out>>
             ELSE /\ invoked' = Append(invoked, Ran("bundletool", zero))
                  /\ IF zero
                     THEN /\ pc' = "BundleBuilt" /\ err' = err /\ Quiet
                          /\ fs' = bundletool_build(fs, manifest)
                          /\ out' = Append(out, "Built bundle")
                     ELSE /\ pc' = "Failed" /\ err' = ToolFailed("Failed to build bundle") /\ Stderr("piped")
                          /\ UNCHANGED <<fs, out>>
    /\ UNCHANGED <<profile, env, manifest, key, sign_cmd, decoded, prev, other>>

Aab_is_debug_profile_dev == profile = "Dev"

Aab_is_debug_profile == FALSE

signer_command(k, m) ==
    [keystore |-> k.path, storepass |-> k.store_pass,
     keypass |-> unwrap_or_default(k.key_pass),
     signedjar |-> aab_dir \o <<signed_name(m)>>,
     input |-> aab_dir \o <<unsigned_name(m)>>,
     alias |-> unwrap_or_default(k.alias)]

Sign ==
    /\ pc = "BundleBuilt"
    /\ \E o \in ToolOutcomes, dbg \in BOOLEAN :
         LET r == Aab_read_keystore_meta(profile, env, manifest, CratePath,
                                         Aab_is_debug_profile, DebugKeyOutcome(dbg))
             zero == o = "zero" /\ Exists(fs, aab_dir \o <<unsigned_name(manifest)>>)
         IN  /\ key' = r
             /\ IF r.error # ""
                THEN /\ pc' = "Failed" /\ err' = KeyError(r.error) /\ Quiet
                     /\ out' = out \o r.diag
                     /\ UNCHANGED <<fs, invoked, sign_cmd>>
                ELSE IF o = "spawn_error"
                THEN /\ pc' = "Failed" /\ err' = IoError("sign", "spawn", "jarsigner") /\ Quiet
                     /\ out' = out \o r.diag
                     /\ UNCHANGED <<fs, invoked, sign_cmd>>
                ELSE /\ invoked' = Append(invoked, Ran("jarsigner", zero))
                     /\ sign_cmd' = <<signer_command(r.key, manifest)>>
                     /\ IF zero
                        THEN /\ pc' = "Signed" /\ err' = err /\ Quiet
                             /\ fs' = jarsigner_sign(fs, manifest)
                             /\ out' = (out \o r.diag) \o <<"Signed aab">>
                        ELSE /\ pc' = "Failed" /\ err' = ToolFailed("Failed to sign aab") /\ Stderr("inherit")
                             /\ fs' = fs
                             /\ out' = out \o r.diag
    /\ UNCHANGED <<profile, env, manifest, decoded, prev, other>>

Next ==
    \/ ApkBuild
    \/ Reset
    \/ Materialize
    \/ Decompile
    \/ CompileResources
    \/ LinkResources
    \/ Expand
    \/ Restage
    \/ Repackage
    \/ BuildBundle
    \/ Sign

Spec == Init /\ [][Next]_vars

----------------------------------------------------------------------------
(* The credential resolver on its own: the two commands at the point where *)
(* each calls read_keystore_meta, `build` at its start and `create_from_apk`*)
(* with the nine stages before signing already done.  The environment may   *)
(* also hold variables spelt with the profile name as written or merely     *)
(* upper-cased, and the signing map an entry under the normalized name.     *)

Merge(e, d) == [n \in DOMAIN e \cup DOMAIN d |-> IF n \in DOMAIN e THEN e[n] ELSE d[n]]

OtherSpellings(p) ==
    {profile_str(p), to_uppercase(profile_str(p))} \ {normalized(profile_str(p))}

EnvInputs(p) ==
    {Merge(e, d) : e \in EnvFor(p),
                   d \in {[n \in {} |-> ""]}
                            \cup {[n \in {env_name(o, x) : x \in EnvSuffixes} |-> "other"] :
                                    o \in OtherSpellings(p)}}

SigningInputs(p) ==
    SigningMaps(p)
        \cup {[n \in {normalized(profile_str(p))} |-> Signing(None, None)]}
        \cup {[n \in {profile_str(p), normalized(profile_str(p))} |->
                 IF n = profile_str(p) THEN Signing(Some("toml_alias"), Some("toml_key_pw"))
                 ELSE Signing(None, None)]}

ManifestInputs(p) == [apk_name : {None, Some("game")}, signing : SigningInputs(p)]

PlainApk == [t \in OptionalTrees |-> IF t = "lib" THEN "full" ELSE "absent"]

StagedFs(m) ==
    LET f2 == materialize(reset(WithPackages(EmptyFs, m, Artifacts)).fs).fs
        f5 == aapt2_link(aapt2_compile(apktool_decode(f2, PlainApk)), {"AndroidManifest.xml"})
        f6 == unzip(make_layout(f5).fs, bundle_dir, base_zip)
    IN  bundletool_build(jar_create(restage(f6).fs), m)

StagedTools ==
    <<Ran("apktool", TRUE), Ran("aapt2 compile", TRUE), Ran("aapt2 link", TRUE),
      Ran("unzip", TRUE), Ran("jar", TRUE), Ran("bundletool", TRUE)>>

StagedOut ==
    <<"Unpacked apk", "Compiled resources", "Linked resources", "Unzipped base.zip",
      "Created bundle.zip", "Built bundle">>

Staged ==
    /\ pc = "BundleBuilt"
    /\ fs = StagedFs(manifest)
    /\ invoked = StagedTools
    /\ out = StagedOut
    /\ decoded = Some(PlainApk)

InitResolve ==
    /\ profile \in Profiles
    /\ env \in EnvInputs(profile)
    /\ manifest \in ManifestInputs(profile)
    /\ \/ /\ pc = "Start"
          /\ fs = EmptyFs
          /\ invoked = <<>>
          /\ out = <<>>
          /\ decoded = None
       \/ Staged
    /\ err = NoErr
    /\ key = NotResolved
    /\ sign_cmd = <<>>
    /\ written = ""
    /\ captured = ""
    /\ prev = <<>>
    /\ other = NoOther

NextResolve ==
    \/ ApkBuild
    \/ Sign

SpecResolve == InitResolve /\ [][NextResolve]_vars

----------------------------------------------------------------------------
(* Vocabulary of the properties *)

ProfileName == profile_str(profile)
EnvSet(suffix) == env_name(normalized(ProfileName), suffix) \in DOMAIN env
Entry == signing_get(manifest, ProfileName)
EntryAliasUnpaired ==
    IsSome(Entry) /\ IsSome(Entry[1].key_alias) /\ ~IsSome(Entry[1].key_password)
Resolved == key # NotResolved
ApkEnded == pc \in {"ApkSigned", "ApkFailed"}
AabEnded == pc \in {"Signed", "Failed"}
Succeeded == key.error = ""
MissingKey == key.error = "MissingReleaseKey"
DefaultPasswordWarning == "store_password not specified, falling back to default password"
Warned == \E i \in 1..Len(key.diag) : key.diag[i] = DefaultPasswordWarning
WasInvoked(tool) == \E i \in 1..Len(invoked) : invoked[i].tool = tool
ToolFailure == pc = "Failed" /\ (err.kind = "tool" \/ err.detail = "spawn")
RestageFailedAt(names) ==
    pc = "Failed" /\ err.kind = "io" /\ err.stage = "restage" /\ err.at \in names

StageMessage(tool) ==
    CASE tool = "apktool" -> "Failed to unpack apk"
      [] tool = "aapt2 compile" -> "Failed to compile resources"
      [] tool = "aapt2 link" -> "Failed to link resources"
      [] tool = "unzip" -> "Failed to unzip base.zip"
      [] tool = "jar" -> "Failed to create bundle.zip"
      [] tool = "bundletool" -> "Failed to build bundle"
      [] OTHER -> "Failed to sign aab"

----------------------------------------------------------------------------
(* C1: a tool that exits non-zero is the last tool the run invokes, the run *)
(* is then in Failed with the error tagged by that tool's stage, and no     *)
(* step leaves Failed.                                                      *)

C1_FailFast ==
    /\ [](\A i \in 1..Len(invoked) :
            invoked[i].exit = "nonzero" =>
                /\ i = Len(invoked)
                /\ pc = "Failed"
                /\ err = ToolFailed(StageMessage(invoked[i].tool)))
    /\ [][pc = "Failed" => UNCHANGED vars]_vars

C1_Witness ==
    /\ pc = "Failed"
    /\ err = ToolFailed("Failed to build bundle")
    /\ Len(invoked) = 6
    /\ invoked[6] = Ran("bundletool", FALSE)

----------------------------------------------------------------------------
(* C2: with STORE_PATH and STORE_PASSWORD both set, resolution returns the  *)
(* environment's credential provided KEY_ALIAS is unset or KEY_PASSWORD is  *)
(* set; with KEY_ALIAS set and KEY_PASSWORD unset it fails with             *)
(* MissingReleaseKey.  The project configuration has no influence.          *)

EnvStoreCredential ==
    /\ Succeeded
    /\ key.key.path = <<EnvValue("_STORE_PATH")>>
    /\ key.key.store_pass = EnvValue("_STORE_PASSWORD")

C2_EnvOverride ==
    Resolved /\ EnvSet("_STORE_PATH") /\ EnvSet("_STORE_PASSWORD") =>
        IF EnvSet("_KEY_ALIAS") /\ ~EnvSet("_KEY_PASSWORD")
        THEN MissingKey
        ELSE /\ EnvStoreCredential
             /\ key.key.alias =
                  (IF EnvSet("_KEY_ALIAS") THEN Some(EnvValue("_KEY_ALIAS")) ELSE None)
             /\ key.key.key_pass =
                  (IF EnvSet("_KEY_ALIAS") THEN Some(EnvValue("_KEY_PASSWORD")) ELSE None)

(* C2 as stated: with STORE_PATH and STORE_PASSWORD set resolution always   *)
(* succeeds with the environment's credential.                              *)
C2_AsStated ==
    Resolved /\ EnvSet("_STORE_PATH") /\ EnvSet("_STORE_PASSWORD") => EnvStoreCredential

C2_Witness ==
    /\ pc = "Signed"
    /\ EnvSet("_STORE_PATH") /\ EnvSet("_STORE_PASSWORD")
    /\ EnvSet("_KEY_ALIAS") /\ EnvSet("_KEY_PASSWORD")
    /\ EntryAliasUnpaired
    /\ EnvStoreCredential

----------------------------------------------------------------------------
(* C3: when the source that resolution selects (the environment if          *)
(* STORE_PATH is set, otherwise the profile's project signing entry) has a  *)
(* key alias without key password, resolution fails with MissingReleaseKey; *)
(* no returned credential carries an alias without a key password.          *)

C3_AliasNeedsPassword ==
    Resolved =>
        /\ (EnvSet("_STORE_PATH") /\ EnvSet("_KEY_ALIAS") /\ ~EnvSet("_KEY_PASSWORD")
                => MissingKey)
        /\ (~EnvSet("_STORE_PATH") /\ EntryAliasUnpaired => MissingKey)
        /\ (Succeeded /\ IsSome(key.key.alias) => IsSome(key.key.key_pass))

(* C3 as stated: an alias without password in either source fails           *)
(* resolution whatever the other variables and the configuration are.       *)
C3_AsStated ==
    Resolved /\ ((EnvSet("_KEY_ALIAS") /\ ~EnvSet("_KEY_PASSWORD")) \/ EntryAliasUnpaired)
        => MissingKey

C3_Witness ==
    /\ pc = "ApkFailed"
    /\ ~EnvSet("_STORE_PATH")
    /\ EntryAliasUnpaired
    /\ MissingKey

----------------------------------------------------------------------------
(* C4: for every profile other than Dev, with STORE_PATH unset and no       *)
(* signing entry for the profile, resolution in either builder fails with   *)
(* MissingReleaseKey and the debug key is not requested.                    *)

C4_NoImplicitReleaseKey ==
    Resolved /\ profile # "Dev" /\ ~EnvSet("_STORE_PATH") /\ ~IsSome(Entry) =>
        /\ MissingKey
        /\ key.key = NoKey
        /\ pc \in {"ApkFailed", "Failed"}
        /\ err.kind = "key" /\ err.detail = "MissingReleaseKey"

C4_Witness ==
    /\ pc = "ApkFailed"
    /\ profile = "Custom"
    /\ ~EnvSet("_STORE_PATH") /\ ~IsSome(Entry)
    /\ DOMAIN manifest.signing # {}
    /\ MissingKey

----------------------------------------------------------------------------
(* C5: the bundle pipeline's sign stage never resolves to the debug key or  *)
(* the default development password, whatever the profile; without both     *)
(* STORE_PATH and STORE_PASSWORD and without a signing entry the run ends   *)
(* with MissingReleaseKey and the signer is not invoked.                    *)

C5_BundleNeverDebugSigned ==
    AabEnded /\ Resolved =>
        /\ key.error # "Ndk"
        /\ key.key # debug_key
        /\ key.key.store_pass # DEFAULT_DEV_KEYSTORE_PASSWORD
        /\ ~Warned
        /\ (sign_cmd # <<>> =>
                /\ sign_cmd[1].keystore # debug_key.path
                /\ sign_cmd[1].storepass # DEFAULT_DEV_KEYSTORE_PASSWORD)
        /\ (~(EnvSet("_STORE_PATH") /\ EnvSet("_STORE_PASSWORD")) /\ ~IsSome(Entry) =>
                /\ pc = "Failed"
                /\ err = KeyError("MissingReleaseKey")
                /\ sign_cmd = <<>>
                /\ ~WasInvoked("jarsigner"))

C5_Witness ==
    /\ pc = "Failed"
    /\ profile = "Dev"
    /\ Resolved
    /\ ~EnvSet("_STORE_PATH") /\ ~IsSome(Entry)
    /\ err = KeyError("MissingReleaseKey")
    /\ WasInvoked("bundletool")

----------------------------------------------------------------------------
(* C6: for Dev with STORE_PATH unset and no 'dev' signing entry, the        *)
(* package builder resolves to the toolchain's debug key (or to the error   *)
(* of debug-key generation); the bundle builder, which disables the debug   *)
(* fallback, fails with MissingReleaseKey.                                  *)

DevUnconfigured == profile = "Dev" /\ ~EnvSet("_STORE_PATH") /\ ~IsSome(Entry)

C6_DevDebugFallback ==
    Resolved /\ DevUnconfigured =>
        /\ (ApkEnded => \/ Succeeded /\ key.key = debug_key
                        \/ key.error = "Ndk")
        /\ (AabEnded => MissingKey)

(* C6 as stated: whenever debug-key generation does not fail, resolution    *)
(* for the unconfigured Dev profile returns the debug key.                  *)
C6_AsStated ==
    Resolved /\ DevUnconfigured /\ key.error # "Ndk" => Succeeded /\ key.key = debug_key

C6_Witness ==
    /\ pc = "ApkSigned"
    /\ DevUnconfigured
    /\ key.key = debug_key

----------------------------------------------------------------------------
(* C7: for Dev with STORE_PATH set and STORE_PASSWORD unset, the package    *)
(* builder emits the default-password warning and, unless KEY_ALIAS is set  *)
(* without KEY_PASSWORD, succeeds with the default development password as  *)
(* store password; the bundle builder fails with MissingReleaseKey.         *)

DevPathOnly == profile = "Dev" /\ EnvSet("_STORE_PATH") /\ ~EnvSet("_STORE_PASSWORD")

C7_DevDefaultPassword ==
    Resolved /\ DevPathOnly =>
        /\ (ApkEnded =>
                /\ Warned
                /\ IF EnvSet("_KEY_ALIAS") /\ ~EnvSet("_KEY_PASSWORD")
                   THEN MissingKey
                   ELSE /\ Succeeded
                        /\ key.key.path = <<EnvValue("_STORE_PATH")>>
                        /\ key.key.store_pass = DEFAULT_DEV_KEYSTORE_PASSWORD)
        /\ (AabEnded => MissingKey /\ ~Warned)

(* C7 as stated: resolution succeeds with the default development password  *)
(* and a warning.                                                           *)
C7_AsStated ==
    Resolved /\ DevPathOnly =>
        Succeeded /\ key.key.store_pass = DEFAULT_DEV_KEYSTORE_PASSWORD /\ Warned

C7_Witness ==
    /\ pc = "ApkSigned"
    /\ DevPathOnly
    /\ key.key.store_pass = DEFAULT_DEV_KEYSTORE_PASSWORD
    /\ Warned

----------------------------------------------------------------------------
(* C8: when the restage stage starts with both unpacked-apk/unknown and     *)
(* unpacked-apk/kotlin present (and its mandatory moves and the assets move *)
(* can succeed), it ends in Restaged with bundle/root holding exactly the   *)
(* kotlin tree's content.                                                   *)

BothAuxiliaryTrees(f) ==
    Exists(f, unpacked_apk \o <<"unknown">>) /\ Exists(f, unpacked_apk \o <<"kotlin">>)

OtherMovesSucceed(f) ==
    /\ Exists(f, bundle_dir \o <<"AndroidManifest.xml">>)
    /\ Exists(f, unpacked_apk \o <<"lib">>)
    /\ ~(Exists(f, unpacked_apk \o <<"assets">>) /\ Exists(f, bundle_dir \o <<"assets">>))

C8_LaterMoveWins ==
    [][pc = "Expanded" /\ BothAuxiliaryTrees(fs) /\ OtherMovesSucceed(fs) =>
          /\ pc' = "Restaged"
          /\ Below(fs', root_dir) = {root_dir \o <<"kotlin.bin">>}]_vars

----------------------------------------------------------------------------
(* C9: profile Release, no environment override, a signing entry with alias *)
(* and key password, apk_name configured, package without assets.  Without  *)
(* native libraries the run never gets past the restage stage: it fails     *)
(* there with NotFound on the manifest or lib move (or earlier on a tool),  *)
(* the archive tool is never invoked and no bundle.zip or <apk_name>.aab is *)
(* written.  With native libraries, a run that ends has failed on a tool or *)
(* in the restage stage, or has built bundle.zip from exactly dex, lib,     *)
(* manifest, res, root, resources.pb and written <apk_name>.aab.            *)

C9_Config ==
    /\ profile = "Release"
    /\ DOMAIN env = {}
    /\ IsSome(Entry) /\ IsSome(Entry[1].key_alias) /\ IsSome(Entry[1].key_password)
    /\ IsSome(manifest.apk_name)

Decoded(tree, state) == IsSome(decoded) /\ decoded[1][tree] = state

LinkedWithoutAssets == Exists(fs, base_zip) => "assets" \notin fs[base_zip].data

SixEntries == {"dex", "lib", "manifest", "res", "root", "resources.pb"}

CompletedWithSixEntries ==
    /\ pc = "Signed"
    /\ WasInvoked("jar")
    /\ fs[bundle_zip].data = SixEntries
    /\ Exists(fs, aab_dir \o <<manifest.apk_name[1] \o ".aab">>)

PastRestage == pc \in {"Restaged", "Repackaged", "BundleBuilt", "Signed"}

C9_EndToEnd ==
    C9_Config /\ Decoded("assets", "absent") /\ LinkedWithoutAssets =>
        /\ (Decoded("lib", "absent") =>
                /\ ~PastRestage
                /\ ~WasInvoked("jar")
                /\ ~Exists(fs, bundle_zip)
                /\ ~Exists(fs, aab_dir \o <<manifest.apk_name[1] \o ".aab">>)
                /\ (pc = "Failed" =>
                        \/ ToolFailure
                        \/ RestageFailedAt({"AndroidManifest.xml", "lib"})
                             /\ err.detail = "NotFound"))
        /\ (Decoded("lib", "full") /\ AabEnded =>
                \/ CompletedWithSixEntries
                \/ ToolFailure
                \/ RestageFailedAt({"AndroidManifest.xml"}) /\ err.detail = "NotFound"
                \/ RestageFailedAt({"kotlin"}) /\ err.detail = "DirectoryNotEmpty")

(* C9 as stated: without native libraries and assets the run completes      *)
(* unless a tool fails, with the six entries archived and <apk_name>.aab    *)
(* written.                                                                 *)
C9_AsStated ==
    C9_Config /\ Decoded("assets", "absent") /\ LinkedWithoutAssets
        /\ Decoded("lib", "absent") /\ AabEnded
        => ToolFailure \/ CompletedWithSixEntries

C9_Witness ==
    /\ C9_Config
    /\ Decoded("assets", "absent") /\ Decoded("lib", "absent")
    /\ RestageFailedAt({"lib"})
    /\ Exists(fs, manifest_dir \o <<"AndroidManifest.xml">>)

----------------------------------------------------------------------------
(* C10: with unpacked-apk/assets absent after decompilation the restage     *)
(* stage never fails on the assets move; a run fails only on a tool, on one *)
(* of the other moves of the restage stage or on credential resolution, and *)
(* bundle/assets exists only if base.zip contained it.                      *)

BundleAssets == Exists(fs, bundle_dir \o <<"assets">>)

BaseHasAssets == Exists(fs, base_zip) /\ "assets" \in fs[base_zip].data

C10_AssetsOptional ==
    Decoded("assets", "absent") =>
        /\ ~RestageFailedAt({"assets"})
        /\ (pc = "Failed" =>
                \/ ToolFailure
                \/ RestageFailedAt({"AndroidManifest.xml", "lib", "kotlin"})
                \/ err = KeyError("MissingReleaseKey"))
        /\ (BundleAssets => BaseHasAssets)

(* C10 as stated: with the assets tree absent the run completes unless a    *)
(* tool fails, and bundle/assets exists only if base.zip produced it        *)
(* (packages whose unknown and kotlin trees collide in bundle/root are left *)
(* aside here).                                                             *)
C10_AsStated ==
    Decoded("assets", "absent") /\ AabEnded
        /\ ~(Decoded("unknown", "full") /\ Decoded("kotlin", "full")) =>
        /\ (ToolFailure \/ pc = "Signed")
        /\ (BundleAssets => BaseHasAssets)

C10_Witness ==
    /\ pc = "Signed"
    /\ Decoded("assets", "absent")
    /\ ~BundleAssets
    /\ "assets" \notin fs[bundle_zip].data

----------------------------------------------------------------------------
(* C11: when a tool exits non-zero, the error of the run is tagged with the *)
(* stage of that tool and carries the text the tool wrote to its standard   *)
(* error, so it is non-empty whenever the tool wrote diagnostics; this for  *)
(* every tool stage, signing included.                                      *)

C11_StderrCarried ==
    pc = "Failed" /\ err.kind = "tool" =>
        /\ err.stage = StageMessage(invoked[Len(invoked)].tool)
        /\ captured = written

----------------------------------------------------------------------------
(* C12: the reset stage leaves the staging root existing with no entry     *)
(* other than `tools`, and leaves `tools` and everything in it as it was;   *)
(* so from the reset on, no file outside `tools` is one that an earlier run *)
(* left behind.                                                             *)

ResetStep == pc = "Start" /\ pc' = "Reset"

PastReset == pc \notin {"Start", "ApkSigned", "ApkFailed"} /\ err.stage # "reset"

LeftBehind(q) ==
    \E f \in PriorStaging :
        /\ q \in DOMAIN f
        /\ f[q].kind = "file"
        /\ ~IsPrefix(tools_dir, q)
        /\ fs[q] = f[q]

C12_ResetClearsStaging ==
    /\ [][ResetStep =>
            /\ IsDirAt(fs', aab_dir)
            /\ Entries(fs', aab_dir) \subseteq {tools_dir}
            /\ Under(fs', tools_dir) = Under(fs, tools_dir)
            /\ \A q \in Under(fs, tools_dir) : fs'[q] = fs[q]]_vars
    /\ [](PastReset => \A q \in DOMAIN fs : ~LeftBehind(q))

C12_Witness ==
    /\ pc = "Reset"
    /\ Entries(fs, aab_dir) = {tools_dir}
    /\ Entries(fs, tools_dir) = {tools_dir \o <<"cache.txt">>, apk_tool}
    /\ fs[apk_tool] = File({"stale bytes"})

----------------------------------------------------------------------------
(* C13: a run goes through reset, materialize, decompile, compile, link,   *)
(* expand, restage, repackage, build bundle, sign in that order: every step *)
(* moves to the next stage or to Failed; the tools invoked so far are a     *)
(* prefix of the fixed tool order, each once, each started from the stage   *)
(* just before it and after all earlier tools exited zero; and Signed is    *)
(* reached only with all seven tools having exited zero.                    *)

StageOrder ==
    <<"Start", "Reset", "ToolsReady", "Decompiled", "ResCompiled", "Linked",
      "Expanded", "Restaged", "Repackaged", "BundleBuilt", "Signed">>

ToolOrder ==
    <<"apktool", "aapt2 compile", "aapt2 link", "unzip", "jar", "bundletool", "jarsigner">>

StartedFrom ==
    <<"ToolsReady", "Decompiled", "ResCompiled", "Linked", "Restaged", "Repackaged",
      "BundleBuilt">>

StageIndex(p) == CHOOSE i \in 1..Len(StageOrder) : StageOrder[i] = p

InOrder(step_from, step_to) ==
    \/ step_to = "Failed"
    \/ step_from = "Start" /\ step_to \in {"ApkSigned", "ApkFailed"}
    \/ /\ step_from \in {StageOrder[i] : i \in 1..Len(StageOrder) - 1}
       /\ step_to = StageOrder[StageIndex(step_from) + 1]

C13_FixedOrder ==
    /\ [](/\ Len(invoked) <= Len(ToolOrder)
          /\ \A i \in 1..Len(invoked) :
                /\ invoked[i].tool = ToolOrder[i]
                /\ i < Len(invoked) => invoked[i].exit = "zero")
    /\ [](pc = "Signed" =>
            /\ Len(invoked) = Len(ToolOrder)
            /\ \A i \in 1..Len(invoked) : invoked[i].exit = "zero")
    /\ [][/\ pc' # pc => InOrder(pc, pc')
          /\ invoked' # invoked =>
                /\ Len(invoked') = Len(invoked) + 1
                /\ pc = StartedFrom[Len(invoked')]]_vars

C13_Witness ==
    /\ pc = "Signed"
    /\ [i \in 1..Len(invoked) |-> invoked[i].tool] = ToolOrder

----------------------------------------------------------------------------
(* C14: nothing is rolled back.  When a run has failed in stage k, what the *)
(* stages before k produced is on disk; and when it failed resolving the    *)
(* credential, the unsigned bundle and bundle/bundle.zip exist and the      *)
(* signed bundle does not.                                                  *)

StageNames ==
    <<"reset", "materialize", "decompile", "compile", "link", "expand", "restage",
      "repackage", "build-bundle", "sign">>

ToolStage == <<3, 4, 5, 6, 8, 9, 10>>

FailedStage ==
    IF err.kind = "tool" THEN ToolStage[Len(invoked)]
    ELSE CHOOSE k \in 1..Len(StageNames) : StageNames[k] = err.stage

StageArtifacts(k) ==
    CASE k = 1 -> {aab_dir}
      [] k = 2 -> {tools_dir, apk_tool, bundle_tool}
      [] k = 3 -> {unpacked_apk}
      [] k = 4 -> {res_zip}
      [] k = 5 -> {base_zip}
      [] k = 6 -> {bundle_dir, dex_dir, manifest_dir, root_dir}
      [] k = 7 -> {manifest_dir \o <<"AndroidManifest.xml">>, bundle_dir \o <<"lib">>}
      [] k = 8 -> {bundle_zip}
      [] k = 9 -> {aab_dir \o <<unsigned_name(manifest)>>}
      [] OTHER -> {aab_dir \o <<signed_name(manifest)>>}

CredentialFailure == pc = "Failed" /\ err.kind = "key"

C14_NoRollback ==
    /\ pc = "Failed" =>
          \A k \in 1..(FailedStage - 1) : \A q \in StageArtifacts(k) : Exists(fs, q)
    /\ CredentialFailure =>
          /\ Exists(fs, aab_dir \o <<unsigned_name(manifest)>>)
          /\ Exists(fs, bundle_zip)
          /\ ~Exists(fs, aab_dir \o <<signed_name(manifest)>>)

C14_Witness ==
    /\ CredentialFailure
    /\ FailedStage = 10
    /\ fs[aab_dir \o <<unsigned_name(manifest)>>] = File(fs[bundle_zip].data)

----------------------------------------------------------------------------
(* Running create_from_apk again on the same staging root.  A finished run *)
(* is recorded in prev and the command starts over on the filesystem the    *)
(* run left.  The tools are deterministic: in the later run a tool behaves  *)
(* as it did in the recorded one (same exit and text, same decoded trees,   *)
(* same linked archive, the same failure to start).  The credential inputs  *)
(* are cut down to one that resolves and one that does not.                 *)

MaxRuns == 2

Snapshot ==
    [fs |-> fs, pc |-> pc, err |-> err, invoked |-> invoked, decoded |-> decoded,
     written |-> written, captured |-> captured]

Rerun ==
    /\ pc \in {"Signed", "Failed"}
    /\ Len(prev) < MaxRuns - 1
    /\ prev' = Append(prev, Snapshot)
    /\ pc' = "Start"
    /\ err' = NoErr
    /\ invoked' = <<>>
    /\ key' = NotResolved
    /\ out' = <<>>
    /\ sign_cmd' = <<>>
    /\ decoded' = None
    /\ written' = ""
    /\ captured' = ""
    /\ UNCHANGED <<profile, env, manifest, fs, other>>

SameTools ==
    \/ prev = <<>>
    \/ LET p == prev[Len(prev)]
           i == Len(invoked')
       IN  /\ invoked' # invoked =>
                IF i <= Len(p.invoked)
                THEN /\ invoked'[i] = p.invoked[i]
                     /\ invoked'[i].exit = "nonzero" => written' = p.written
                ELSE p.err.detail # "spawn"
           /\ err'.detail = "spawn" => p.err = err' /\ Len(invoked) = Len(p.invoked)
           /\ decoded' # None /\ p.decoded # None => decoded' = p.decoded
           /\ Exists(fs', base_zip) /\ Exists(p.fs, base_zip) => fs'[base_zip] = p.fs[base_zip]

InitRerun ==
    /\ Init
    /\ profile = "Release"
    /\ Cardinality(DOMAIN env) \in {0, Cardinality(EnvSuffixes)}
    /\ manifest.signing = [n \in {} |-> Signing(None, None)]

NextRerun ==
    \/ Rerun
    \/ Reset
    \/ Materialize
    \/ Decompile /\ SameTools
    \/ CompileResources /\ SameTools
    \/ LinkResources /\ SameTools
    \/ Expand /\ SameTools
    \/ Restage
    \/ Repackage /\ SameTools
    \/ BuildBundle /\ SameTools
    \/ Sign /\ SameTools

SpecRerun == InitRerun /\ [][NextRerun]_vars

(* C15: a run that follows a finished run on the same input and the same   *)
(* staging root ends as that run ended, with tools/ and every other file    *)
(* under the staging root, and everywhere else, identical.                  *)

C15_RerunIdempotent ==
    prev # <<>> /\ pc \in {"Signed", "Failed"} =>
        /\ fs = prev[Len(prev)].fs
        /\ pc = prev[Len(prev)].pc
        /\ err = prev[Len(prev)].err

C15_Witness ==
    /\ prev # <<>>
    /\ pc = "Signed"
    /\ prev[Len(prev)].pc = "Signed"
    /\ Exists(fs, tools_dir \o <<"cache.txt">>)
    /\ Under(fs, aab_dir) = Under(prev[Len(prev)].fs, aab_dir)

----------------------------------------------------------------------------
(* C16: the materialize stage leaves both helper archives in tools/ under  *)
(* their fixed names with exactly the embedded content, whatever was there  *)
(* before, and they stay so for the rest of the run; and no step of a run   *)
(* creates, changes or removes any other entry of tools/.                   *)

MaterializeStep == pc = "Reset" /\ pc' = "ToolsReady"

Materialized ==
    \/ pc \in {StageOrder[i] : i \in 3..Len(StageOrder)}
    \/ pc = "Failed" /\ FailedStage > 2

OtherToolEntries(f) == Below(f, tools_dir) \ {apk_tool, bundle_tool}

C16_ToolsCache ==
    /\ [][MaterializeStep =>
            /\ fs'[apk_tool] = File(APK_TOOL)
            /\ fs'[bundle_tool] = File(BUNDLE_TOOL)]_vars
    /\ [](Materialized =>
            /\ IsDirAt(fs, tools_dir)
            /\ fs[apk_tool] = File(APK_TOOL)
            /\ fs[bundle_tool] = File(BUNDLE_TOOL))
    /\ [][/\ OtherToolEntries(fs') = OtherToolEntries(fs)
          /\ \A q \in OtherToolEntries(fs) : fs'[q] = fs[q]]_vars

C16_Witness ==
    /\ pc = "ToolsReady"
    /\ Entries(fs, tools_dir) = {apk_tool, bundle_tool, tools_dir \o <<"cache.txt">>}
    /\ fs[apk_tool] = File(APK_TOOL)
    /\ fs[tools_dir \o <<"cache.txt">>] = LeftoverFs[tools_dir \o <<"cache.txt">>]

----------------------------------------------------------------------------
(* C17: a step of create_from_apk, successful or failing, changes nothing  *)
(* under the package directory, and outside the staging root it does at     *)
(* most one thing: create the missing directories above the staging root.   *)

PipelineStep == pc' \notin {"ApkSigned", "ApkFailed"}

Outside(f) == {q \in DOMAIN f : ~IsPrefix(aab_dir, q)}

Kept(S) == \A q \in S : q \in DOMAIN fs' /\ fs'[q] = fs[q]

C17_WritesOnlyStaging ==
    [][PipelineStep =>
         /\ Kept(Outside(fs))
         /\ Under(fs', apk_dir) = Under(fs, apk_dir)
         /\ \A q \in Outside(fs') \ Outside(fs) : IsPrefix(q, aab_dir) /\ fs'[q] = Dir]_vars

(* C17 as stated: every path a step creates, writes, moves or deletes lies *)
(* under the staging root.                                                  *)
C17_AsStated ==
    [][PipelineStep => Outside(fs') = Outside(fs) /\ Kept(Outside(fs))]_vars

C17_Witness ==
    /\ pc = "Signed"
    /\ Outside(fs) = {base_dir, apk_dir, apk_dir \o <<"examples">>}
                        \cup {apk_path(manifest, a) : a \in Artifacts}
    /\ fs[input_apk(manifest)].kind = "file"

----------------------------------------------------------------------------
(* C18: when the STORE_PATH variable of the profile is set, the outcome of *)
(* the resolution is the one obtained with any other content of the signing *)
(* map; a credential then comes from the environment, and a failure is the  *)
(* missing-key error of the environment branch, never a credential taken    *)
(* from the project configuration or the debug key.                         *)

WithSigning(s) == [manifest EXCEPT !.signing = s]

ResolveWith(m, g) ==
    IF ApkEnded
    THEN Apk_read_keystore_meta(profile, env, m, CratePath,
                                Apk_is_debug_profile(profile), DebugKeyOutcome(g))
    ELSE Aab_read_keystore_meta(profile, env, m, CratePath,
                                Aab_is_debug_profile, DebugKeyOutcome(g))

C18_EnvPrecedence ==
    Resolved /\ EnvSet("_STORE_PATH") =>
        /\ \A s \in SigningInputs(profile), g \in BOOLEAN : key = ResolveWith(WithSigning(s), g)
        /\ Succeeded => key.key.path = <<EnvValue("_STORE_PATH")>>
        /\ ~Succeeded => MissingKey

C18_Witness ==
    /\ pc = "Failed"
    /\ MissingKey
    /\ EnvSet("_STORE_PATH")
    /\ ~EnvSet("_STORE_PASSWORD")
    /\ IsSome(Entry)
    /\ ~EntryAliasUnpaired

----------------------------------------------------------------------------
(* C19: the resolver of the package builder and the resolver of the bundle *)
(* builder agree: given the same profile, environment, signing map, crate   *)
(* path, is_debug_profile value and debug-key outcome they return the same  *)
(* credential or the same error with the same diagnostics; so what either   *)
(* command resolved is what the other copy returns for the same arguments.  *)

ByApkCopy(d, g) ==
    Apk_read_keystore_meta(profile, env, manifest, CratePath, d, DebugKeyOutcome(g))

ByAabCopy(d, g) ==
    Aab_read_keystore_meta(profile, env, manifest, CratePath, d, DebugKeyOutcome(g))

C19_CopiesAgree ==
    /\ \A d \in BOOLEAN, g \in BOOLEAN : ByApkCopy(d, g) = ByAabCopy(d, g)
    /\ Resolved /\ ApkEnded => \E g \in BOOLEAN : key = ByAabCopy(Apk_is_debug_profile(profile), g)
    /\ Resolved /\ AabEnded => \E g \in BOOLEAN : key = ByApkCopy(Aab_is_debug_profile, g)

C19_Witness ==
    /\ pc = "ApkFailed"
    /\ MissingKey
    /\ ~EnvSet("_STORE_PATH")
    /\ EntryAliasUnpaired
    /\ key.diag # <<>>
    /\ key = ByAabCopy(Apk_is_debug_profile(profile), TRUE)

----------------------------------------------------------------------------
(* C20: the resolver reads exactly the four variables                      *)
(* CARGO_ANDROID_<P>_STORE_PATH, _STORE_PASSWORD, _KEY_ALIAS, _KEY_PASSWORD *)
(* with <P> the profile name in upper case and every '-' turned into '_',   *)
(* and looks the signing map up under the profile name as written.  So a    *)
(* credential from the environment carries the values of those variables,   *)
(* variables spelt otherwise change nothing, an entry under the name as     *)
(* written is the one used, and an entry under the normalized name is not.  *)

UpperName ==
    CASE profile = "Dev" -> <<"D", "E", "V">>
      [] profile = "Release" -> <<"R", "E", "L", "E", "A", "S", "E">>
      [] OTHER -> <<"Q", "_", "A">>

NameAsWritten ==
    CASE profile = "Dev" -> <<"d", "e", "v">>
      [] profile = "Release" -> <<"r", "e", "l", "e", "a", "s", "e">>
      [] OTHER -> <<"q", "-", "a">>

ExpectedVar(suffix) == <<"CARGO_ANDROID_">> \o UpperName \o <<suffix>>

HasVar(suffix) == ExpectedVar(suffix) \in DOMAIN env

OnlyExpected == [n \in {ExpectedVar(x) : x \in EnvSuffixes} \cap DOMAIN env |-> env[n]]

ResolveIn(e, g) ==
    IF ApkEnded
    THEN Apk_read_keystore_meta(profile, e, manifest, CratePath,
                                Apk_is_debug_profile(profile), DebugKeyOutcome(g))
    ELSE Aab_read_keystore_meta(profile, e, manifest, CratePath,
                                Aab_is_debug_profile, DebugKeyOutcome(g))

FromFallback == MissingKey \/ key.error = "Ndk" \/ key.key = debug_key

C20_VariableNames ==
    Resolved =>
        /\ \E g \in BOOLEAN : key = ResolveIn(OnlyExpected, g)
        /\ HasVar("_STORE_PATH") /\ Succeeded =>
              /\ key.key.path = <<env[ExpectedVar("_STORE_PATH")]>>
              /\ HasVar("_STORE_PASSWORD") =>
                    key.key.store_pass = env[ExpectedVar("_STORE_PASSWORD")]
              /\ HasVar("_KEY_ALIAS") =>
                    /\ key.key.alias = Some(env[ExpectedVar("_KEY_ALIAS")])
                    /\ key.key.key_pass = Some(env[ExpectedVar("_KEY_PASSWORD")])
        /\ ~HasVar("_STORE_PATH") /\ NameAsWritten \in DOMAIN manifest.signing /\ Succeeded =>
              /\ key.key.path = Append(CratePath, manifest.signing[NameAsWritten].store_path)
              /\ key.key.alias = manifest.signing[NameAsWritten].key_alias
        /\ ~HasVar("_STORE_PATH") /\ NameAsWritten \notin DOMAIN manifest.signing => FromFallback

C20_Witness ==
    /\ profile = "Custom"
    /\ pc = "Signed"
    /\ ~HasVar("_STORE_PATH")
    /\ <<"CARGO_ANDROID_", "Q", "-", "A", "_STORE_PATH">> \in DOMAIN env
    /\ DOMAIN manifest.signing = {NameAsWritten, UpperName}
    /\ key.key.alias = Some("toml_alias")

----------------------------------------------------------------------------
(* Two runs of create_from_apk on one staging root.  Nothing in aab.rs     *)
(* locks aab_dir, so the stages of a second run of the same command fall   *)
(* anywhere between the stages of this one.  The second run is given tools *)
(* that succeed whenever their inputs are there.                           *)

other_stage(f, k, p, e, m) ==
    LET ok(g) == [ok |-> TRUE, fs |-> g]
        no(g) == [ok |-> FALSE, fs |-> g]
        io(r) == [ok |-> r.err = "Ok", fs |-> r.fs]
    IN  CASE k = 1 -> io(reset(f))
          [] k = 2 -> io(materialize(f))
          [] k = 3 -> IF Exists(f, input_apk(m)) THEN ok(apktool_decode(f, PlainApk)) ELSE no(f)
          [] k = 4 -> IF IsDirAt(f, unpacked_apk \o <<"res">>) THEN ok(aapt2_compile(f)) ELSE no(f)
          [] k = 5 -> IF Exists(f, res_zip) /\ Exists(f, unpacked_apk \o <<"AndroidManifest.xml">>)
                      THEN ok(aapt2_link(f, {"AndroidManifest.xml"})) ELSE no(f)
          [] k = 6 -> LET r == make_layout(f)
                      IN  IF r.err = "Ok" /\ Exists(r.fs, base_zip)
                          THEN ok(unzip(r.fs, bundle_dir, base_zip)) ELSE no(r.fs)
          [] k = 7 -> io(restage(f))
          [] k = 8 -> IF IsDirAt(f, bundle_dir) THEN ok(jar_create(f)) ELSE no(f)
          [] k = 9 -> IF Exists(f, bundle_zip) THEN ok(bundletool_build(f, m)) ELSE no(f)
          [] OTHER -> IF /\ Aab_read_keystore_meta(p, e, m, CratePath, Aab_is_debug_profile,
                                                   DebugKeyOutcome(TRUE)).error = ""
                         /\ Exists(f, aab_dir \o <<unsigned_name(m)>>)
                      THEN ok(jarsigner_sign(f, m)) ELSE no(f)

OtherRun ==
    /\ ~other.failed
    /\ other.stage < Len(StageOrder)
    /\ pc \in {StageOrder[i] : i \in 1..Len(StageOrder)}
    /\ LET r == other_stage(fs, other.stage, profile, env, manifest)
       IN  /\ fs' = r.fs
           /\ other' = [stage |-> IF r.ok THEN other.stage + 1 ELSE other.stage,
                        failed |-> ~r.ok,
                        reset_at |-> IF other.stage = 1 THEN StageIndex(pc) ELSE other.reset_at]
    /\ UNCHANGED <<profile, env, manifest, pc, err, invoked, key, out, sign_cmd, decoded,
                   written, captured, prev>>

InitTwo ==
    /\ InitRerun
    /\ fs \in {WithPackages(EmptyFs, manifest, Artifacts), WithPackages(LeftoverFs, manifest, Artifacts)}

NextTwo ==
    \/ OtherRun
    \/ Reset
    \/ Materialize
    \/ Decompile
    \/ CompileResources
    \/ LinkResources
    \/ Expand
    \/ Restage
    \/ Repackage
    \/ BuildBundle
    \/ Sign

SpecTwo == InitTwo /\ [][NextTwo]_vars

(* What the stage that starts at p reads of the earlier stages' output *)
Consumed(p) ==
    CASE p = "Decompiled" -> {unpacked_apk \o <<"res">>}
      [] p = "ResCompiled" -> {res_zip, unpacked_apk \o <<"AndroidManifest.xml">>}
      [] p = "Linked" -> {base_zip}
      [] p = "Expanded" -> {bundle_dir \o <<"AndroidManifest.xml">>, unpacked_apk \o <<"lib">>}
      [] p = "Restaged" -> {bundle_dir}
      [] OTHER -> {}

(* The stage at whose end an intermediate artifact is in place *)
ProducedAt(q) ==
    IF IsPrefix(unpacked_apk, q) THEN StageIndex("Decompiled")
    ELSE IF q = res_zip THEN StageIndex("ResCompiled")
    ELSE IF q = base_zip THEN StageIndex("Linked")
    ELSE StageIndex("Expanded")

(* The second run reset the staging root after this run's last stage *)
ResetUnderneath == other.reset_at = StageIndex(pc)

(* C21: two runs sharing one staging root are not safe to interleave: when  *)
(* the second run's reset falls between the stage of this run that produced *)
(* an intermediate artifact (unpacked-apk, res.zip, base.zip, bundle/) and  *)
(* the stage that consumes it, that stage either fails or finds every       *)
(* artifact it reads put there by the second run, not by this one.          *)
C21_Interference ==
    [][(pc' # pc /\ Consumed(pc) # {} /\ ResetUnderneath)
         => \/ pc' = "Failed"
            \/ \A q \in Consumed(pc) : Exists(fs, q) /\ other.stage >= ProducedAt(q)]_vars

C21_Witness ==
    /\ pc = "Failed"
    /\ err = ToolFailed("Failed to link resources")
    /\ other.reset_at = StageIndex("ResCompiled")
    /\ ~Exists(fs, res_zip)

(* the other outcome: this run links what the second run compiled *)
C21_Consumed ==
    /\ pc = "Linked"
    /\ other.reset_at = StageIndex("ResCompiled")
    /\ other.stage >= StageIndex("ResCompiled")

----------------------------------------------------------------------------
(* The five moves of the restage stage, in the order of aab.rs 143-160 *)
Moves ==
    <<[name |-> "AndroidManifest.xml", from |-> bundle_dir \o <<"AndroidManifest.xml">>,
       to |-> manifest_dir \o <<"AndroidManifest.xml">>],
      [name |-> "lib", from |-> unpacked_apk \o <<"lib">>, to |-> bundle_dir \o <<"lib">>],
      [name |-> "assets", from |-> unpacked_apk \o <<"assets">>, to |-> bundle_dir \o <<"assets">>],
      [name |-> "unknown", from |-> unpacked_apk \o <<"unknown">>, to |-> root_dir],
      [name |-> "kotlin", from |-> unpacked_apk \o <<"kotlin">>, to |-> root_dir]>>

OptionalMoves == {"assets", "unknown", "kotlin"}

RECURSIVE AfterMoves(_, _)
AfterMoves(f, k) ==
    IF k = 0 THEN f ELSE rename(AfterMoves(f, k - 1), Moves[k].from, Moves[k].to).fs

MoveResult(f, k) == rename(AfterMoves(f, k - 1), Moves[k].from, Moves[k].to).err

Tolerated(k, e) == e = "Ok" \/ (e = "NotFound" /\ Moves[k].name \in OptionalMoves)

Aborting(f) == {k \in 1..Len(Moves) : ~Tolerated(k, MoveResult(f, k))}

FirstAborting(f) == CHOOSE k \in Aborting(f) : \A j \in Aborting(f) : k <= j

(* C22: in the restage stage NotFound is tolerated for exactly the three    *)
(* optional sources (unpacked-apk/assets, unknown, kotlin); a missing       *)
(* bundle/AndroidManifest.xml or unpacked-apk/lib, and any error other than *)
(* NotFound on any of the five moves, ends the run with that error before   *)
(* the repackage tool is invoked.                                           *)
C22_RestageErrors ==
    [][pc = "Expanded" /\ pc' # pc =>
         IF Aborting(fs) = {}
         THEN /\ pc' = "Restaged"
              /\ fs' = AfterMoves(fs, Len(Moves))
         ELSE /\ pc' = "Failed"
              /\ err' = IoError("restage", MoveResult(fs, FirstAborting(fs)),
                                Moves[FirstAborting(fs)].name)
              /\ invoked' = invoked
              /\ ~WasInvoked("jar")]_vars

(* all three optional sources are missing and the stage completes *)
C22_Witness ==
    /\ pc = "Restaged"
    /\ decoded # None
    /\ \A t \in OptionalMoves : decoded[1][t] = "absent"
    /\ Exists(fs, bundle_dir \o <<"lib">>)
    /\ Below(fs, root_dir) = {}

(* a move of an optional source fails otherwise than with NotFound *)
C22_OptionalAborts ==
    /\ RestageFailedAt(OptionalMoves)
    /\ err.detail = "DirectoryNotEmpty"

----------------------------------------------------------------------------
(* One run of create_from_apk with its scheduling.  The code between two   *)
(* tool invocations is straight-line and always continues: the reset, the  *)
(* writes of the helper tools, the renames, a layout that cannot be made   *)
(* and a credential that cannot be resolved.  A tool returns when it       *)
(* returns: Command::output() waits for the child, so no fairness is asked *)
(* of the steps that invoke one.                                           *)

NextLive ==
    \/ Reset
    \/ Materialize
    \/ Decompile
    \/ CompileResources
    \/ LinkResources
    \/ Expand
    \/ Restage
    \/ Repackage
    \/ BuildBundle
    \/ Sign

(* The stages that invoke no tool: reset, materialize, restage *)
StraightLine ==
    /\ pc \in {"Start", "Reset", "Expanded"}
    /\ pc' \in {StageOrder[StageIndex(pc) + 1], "Failed"}

(* create_dir_all or create_dir fails before unzip is spawned *)
LayoutFails == pc = "Linked" /\ make_layout(fs).err # "Ok" /\ pc' = "Failed"

(* read_keystore_meta fails before jarsigner is spawned *)
CredentialFails ==
    /\ pc = "BundleBuilt"
    /\ Aab_read_keystore_meta(profile, env, manifest, CratePath, Aab_is_debug_profile,
                              DebugKeyOutcome(TRUE)).error # ""
    /\ pc' = "Failed"

SpecLive ==
    /\ InitRerun
    /\ [][NextLive]_vars
    /\ WF_pc(StraightLine)
    /\ WF_pc(LayoutFails)
    /\ WF_pc(CredentialFails)

Terminated == pc \in {"Signed", "Failed"}

(* the run is at a stage that waits for an external tool *)
AtTool == pc \in {StartedFrom[i] : i \in 1..Len(StartedFrom)}

(* C23: if every external tool invocation returns, every run of            *)
(* create_from_apk terminates, in success after the signer exits zero or   *)
(* in failure, after at most seven tool invocations; a run fails to        *)
(* terminate only while it is blocked on a tool that never exits.          *)
C23_Terminates ==
    /\ [](Len(invoked) <= Len(ToolOrder))
    /\ [](pc = "Signed" => invoked[Len(invoked)] = Ran("jarsigner", TRUE))
    /\ ([]<>(~AtTool)) => <>Terminated
    /\ <>[]Terminated \/ <>[]AtTool

C23_Witness ==
    /\ pc = "Signed"
    /\ Len(invoked) = Len(ToolOrder)
    /\ invoked[Len(invoked)] = Ran("jarsigner", TRUE)

----------------------------------------------------------------------------
(* The source a resolution reads the alias and the key password from *)
FromEnv == EnvSet("_STORE_PATH")
FromEntry == ~FromEnv /\ IsSome(Entry)

KeyPasswordAlone ==
    \/ FromEnv /\ EnvSet("_KEY_PASSWORD") /\ ~EnvSet("_KEY_ALIAS")
    \/ FromEntry /\ IsSome(Entry[1].key_password) /\ ~IsSome(Entry[1].key_alias)

(* C24: every credential returned from the environment source or from the  *)
(* project-entry source has alias and key password both present or both    *)
(* absent: a key password supplied without an alias (in either source) is  *)
(* dropped, and the signer is then invoked with an empty -keypass value and *)
(* an empty alias argument.                                                 *)
C24_AliasPaired ==
    Resolved /\ Succeeded /\ (FromEnv \/ FromEntry) =>
        /\ IsSome(key.key.alias) <=> IsSome(key.key.key_pass)
        /\ KeyPasswordAlone =>
             /\ key.key.alias = None
             /\ key.key.key_pass = None
             /\ sign_cmd # <<>> => sign_cmd[1].keypass = "" /\ sign_cmd[1].alias = ""

C24_Witness ==
    /\ pc = "Signed"
    /\ FromEnv
    /\ KeyPasswordAlone
    /\ sign_cmd # <<>>
    /\ sign_cmd[1].keypass = ""

(* the same with the key password in the project entry *)
C24_EntryPasswordDropped ==
    /\ pc = "Signed"
    /\ FromEntry
    /\ KeyPasswordAlone
    /\ sign_cmd[1].alias = ""

----------------------------------------------------------------------------
(* The environments that differ from env only in the three variables read  *)
(* beside STORE_PATH                                                        *)
WithoutStorePath == {e \in EnvInputs(profile) : ExpectedVar("_STORE_PATH") \notin DOMAIN e}

DebugFlag == IF ApkEnded THEN Apk_is_debug_profile(profile) ELSE Aab_is_debug_profile

(* C25: when STORE_PATH is unset, the STORE_PASSWORD, KEY_ALIAS and        *)
(* KEY_PASSWORD variables have no effect: the resolution is the same with  *)
(* any of them set or unset, it is determined by the project signing entry *)
(* of the profile alone and, if there is none, by the debug-fallback flag.  *)
C25_EnvIgnoredWithoutPath ==
    Resolved /\ ~EnvSet("_STORE_PATH") =>
        /\ \E g \in BOOLEAN : \A e \in WithoutStorePath : key = ResolveIn(e, g)
        /\ IsSome(Entry) =>
             IF EntryAliasUnpaired
             THEN MissingKey
             ELSE /\ Succeeded
                  /\ key.key = [path |-> Append(CratePath, Entry[1].store_path),
                                store_pass |-> Entry[1].store_password,
                                alias |-> Entry[1].key_alias,
                                key_pass |-> IF IsSome(Entry[1].key_alias)
                                             THEN Entry[1].key_password ELSE None]
        /\ ~IsSome(Entry) =>
             IF DebugFlag THEN \E g \in BOOLEAN : key = DebugKeyOutcome(g) ELSE MissingKey

C25_Witness ==
    /\ pc = "Signed"
    /\ ~EnvSet("_STORE_PATH")
    /\ EnvSet("_STORE_PASSWORD") /\ EnvSet("_KEY_ALIAS") /\ EnvSet("_KEY_PASSWORD")
    /\ IsSome(Entry)
    /\ key.key.store_pass = Entry[1].store_password
    /\ key.key.alias = None

(* the variables are set, there is no entry, and the fallback decides *)
C25_FallbackDecides ==
    /\ pc = "ApkSigned"
    /\ ~EnvSet("_STORE_PATH")
    /\ EnvSet("_STORE_PASSWORD") /\ EnvSet("_KEY_ALIAS") /\ EnvSet("_KEY_PASSWORD")
    /\ ~IsSome(Entry)
    /\ key.key = debug_key

----------------------------------------------------------------------------
(* The packages the builder has written under apk_dir *)
Built == {a \in Artifacts : Exists(fs, apk_path(manifest, a))}

(* C26: for the same profile and project configuration, the package path   *)
(* the bundle pipeline hands to the decompiler (apk_dir/<apk_name>.apk, or  *)
(* apk_dir/app.apk without an apk_name) is the path at which the package    *)
(* builder writes its package, for every artifact and both with and without *)
(* a configured apk_name.                                                   *)
C26_SamePackagePath ==
    pc = "ApkSigned" => \A a \in Built : apk_path(manifest, a) = input_apk(manifest)

(* where the two paths do agree: a library or binary with a configured     *)
(* apk_name, or one that is itself named app                                *)
C26_AgreeWhenNamed ==
    pc = "ApkSigned" =>
        \A a \in Built :
            (a.type # "Example" /\ (IsSome(manifest.apk_name) \/ a.name = "app"))
                <=> apk_path(manifest, a) = input_apk(manifest)

C26_Mismatch ==
    /\ pc = "ApkSigned"
    /\ manifest.apk_name = None
    /\ Built = {[name |-> "mygame", type |-> "Lib"]}
    /\ ~Exists(fs, input_apk(manifest))

====
